---------------------------- MODULE Spec2Model ----------------------------
(***************************************************************************)
(* A model of src/main.py: the validated generation loop                   *)
(* (chat_gpt_wrapper), the response code extractor                         *)
(* (extract_all_python_code), the diff reader (get_modified_code_files),   *)
(* the generation pipeline (generate_unit_test) and the change-driven      *)
(* dispatcher (the __main__ block).                                        *)
(*                                                                         *)
(* Text is modelled character by character: a Python str is a sequence of  *)
(* one-character strings.  A literal chunk of a prompt that no operation   *)
(* looks into is kept as one element.                                      *)
(***************************************************************************)
EXTENDS Integers, Sequences, FiniteSets, TLC

(***************************************************************************)
(* Python str operations used by the source.                               *)
(***************************************************************************)

\* s[::-1]
RECURSIVE Reverse(_)
Reverse(s) ==
    IF s = <<>> THEN <<>> ELSE Reverse(Tail(s)) \o <<Head(s)>>

\* s[i:i+len(pat)] == pat   (1-based i)
OccursAt(s, pat, i) ==
    /\ i >= 1
    /\ i + Len(pat) - 1 <= Len(s)
    /\ \A k \in 1..Len(pat) : s[i + k - 1] = pat[k]

\* the least element of a set of positions; 0 for the empty set
LeastOrZero(hits) ==
    IF hits = {} THEN 0 ELSE CHOOSE i \in hits : \A j \in hits : i <= j

\* 1-based index of the first occurrence of pat in s at or after from; 0 if none
Find(s, pat, from) ==
    LeastOrZero({i \in from..(Len(s) - Len(pat) + 1) : OccursAt(s, pat, i)})

\* pat in s
Contains(s, pat) == Find(s, pat, 1) # 0

\* s.startswith(pat)
StartsWith(s, pat) == OccursAt(s, pat, 1)

\* s[from:]   (1-based from)
Drop(s, from) == SubSeq(s, from, Len(s))

\* str.replace(old, new, count) for a non-empty old: the occurrences are taken
\* left to right without overlap; count < 0 replaces all of them.
RECURSIVE ReplaceFrom(_, _, _, _)
\* the same, i being the place of the first occurrence of old in s, or 0
ReplaceAt(s, old, new, count, i) ==
    IF count = 0 \/ i = 0
    THEN s
    ELSE SubSeq(s, 1, i - 1) \o new
           \o ReplaceFrom(Drop(s, i + Len(old)), old, new, count - 1)

ReplaceFrom(s, old, new, count) ==
    ReplaceAt(s, old, new, count, Find(s, old, 1))

\* str.replace with an empty old puts new before every character and at the end
RECURSIVE Interleave(_, _, _)
Interleave(s, new, count) ==
    IF count = 0 THEN s
    ELSE IF s = <<>> THEN new
    ELSE new \o <<Head(s)>> \o Interleave(Tail(s), new, count - 1)

\* s.replace(old, new, count)
StrReplace(s, old, new, count) ==
    IF old = <<>> THEN Interleave(s, new, count)
    ELSE ReplaceFrom(s, old, new, count)

Whitespace == {" ", "\t", "\n", "\r", "\f"}

RECURSIVE LStrip(_)
LStrip(s) ==
    IF s # <<>> /\ Head(s) \in Whitespace THEN LStrip(Tail(s)) ELSE s

\* s.strip()
Strip(s) == Reverse(LStrip(Reverse(LStrip(s))))

\* s.split(sep) for a one-character sep: the list of fields
RECURSIVE Split(_, _)
\* the same, i being the place of the first sep in s, or 0
SplitAt(s, sep, i) ==
    IF i = 0 THEN <<s>>
    ELSE <<SubSeq(s, 1, i - 1)>> \o Split(Drop(s, i + 1), sep)

Split(s, sep) == SplitAt(s, sep, Find(s, <<sep>>, 1))

\* "".join(parts)
RECURSIVE Join(_)
Join(parts) ==
    IF parts = <<>> THEN <<>> ELSE Head(parts) \o Join(Tail(parts))


(***************************************************************************)
(* extract_all_python_code and the syntax check of its result.             *)
(***************************************************************************)

\* Python's None, as a value no text is equal to
None == <<"<None>">>

\* The grave accent, which a string literal of this language cannot hold
BT == "<grave>"

start_marker == <<BT, BT, BT, "p", "y", "t", "h", "o", "n">>

end_marker == <<BT, BT, BT>>

\* pattern.findall(string): the first group of every match of
\* start_marker(.*?)(end_marker), re.DOTALL, left to right without overlap
RECURSIVE FindAll(_)
\* the same, the group of the first match being string[c .. j-1]; j = 0
\* when no end marker follows
MatchesFrom(string, c, j) ==
    IF j = 0
    THEN <<>>
    ELSE <<SubSeq(string, c, j - 1)>>
           \o FindAll(Drop(string, j + Len(end_marker)))

\* the same, i being the place of the first start marker, or 0
MatchesAt(string, i) ==
    IF i = 0
    THEN <<>>
    ELSE MatchesFrom(string, i + Len(start_marker),
                     Find(string, end_marker, i + Len(start_marker)))

FindAll(string) == MatchesAt(string, Find(string, start_marker, 1))

\* the groups joined as they were matched
JoinGroupsUntrimmed(matches) == Join(matches)

\* the value the function returns for a list of matches
JoinGroups(matches) ==
    Join([k \in 1..Len(matches) |-> Strip(matches[k])])

\* the empty text in place of None
NoMatchResultEmpty == <<>>

\* line 58
NoMatchResult == None

\* lines 57-59
ResultOf(matches) ==
    IF matches = <<>> THEN NoMatchResult ELSE JoinGroups(matches)

extract_all_python_code(string) == ResultOf(FindAll(string))

\* The identifiers of the code the modelled replies hold: one or more "x"
IsName(line) == line # <<>> /\ \A k \in 1..Len(line) : line[k] = "x"

class_header == <<"c", "l", "a", "s", "s", " ", "x", ":">>

\* Whether CPython accepts the text as a module.  The rule is exact for the
\* texts built from "x", "(", "\n" and "class x:", which is all that the
\* modelled replies hold between their fences: an unclosed "(" never parses,
\* and every line is empty, a name, or "class x:" followed by a name.
LineOK(line) ==
    \/ line = <<>>
    \/ IsName(line)
    \/ /\ StartsWith(line, class_header)
       /\ IsName(Drop(line, Len(class_header) + 1))

LinesOK(lines) == \A k \in 1..Len(lines) : LineOK(lines[k])

ParsesOK(code) ==
    /\ ~Contains(code, <<"(">>)
    /\ LinesOK(Split(code, "\n"))

\* ast.parse(code_output): "ok", or the exception it raises.  compile()
\* raises TypeError for None; only SyntaxError is caught by the caller.
AstParse(code_output) ==
    IF code_output = None THEN "TypeError"
    ELSE IF ParsesOK(code_output) THEN "ok"
    ELSE "SyntaxError"

(***************************************************************************)
(* The model service: what openai.ChatCompletion.create can answer.        *)
(***************************************************************************)

\* a fenced block holding body
Fenced(body) == start_marker \o <<"\n">> \o body \o <<"\n">> \o end_marker

reply_valid == Fenced(<<"x">>)

reply_invalid == Fenced(<<"(">>)

reply_class == Fenced(class_header \o <<"x", "\n", "x">>)

reply_empty == start_marker \o end_marker

reply_two_blocks == <<"x", " ">> \o Fenced(<<"x">>) \o <<"\n">> \o Fenced(<<"(">>)

reply_no_fence == <<"x", " ", "x">>

Replies ==
    {reply_valid, reply_invalid, reply_class, reply_empty, reply_two_blocks,
     reply_no_fence}

\* the request raises instead of answering
RequestError == <<"<error>">>

ModelAnswers == Replies \cup {RequestError}

(***************************************************************************)
(* chat_gpt_wrapper.  A frame holds the arguments of one (recursive) call. *)
(***************************************************************************)

default_engine == "GPT4"

default_model == "gpt-4"

default_max_tokens == 1000

default_temperature == "0.2"

Message(role, content) == [role |-> role, content |-> content]

Frame(msgs, e, m, mt, t, r) ==
    [input_messages |-> msgs, engine |-> e, model |-> m, max_tokens |-> mt,
     temperature |-> t, reruns_if_fail |-> r]

\* the request of lines 24-31
Request(f) ==
    [engine |-> f.engine, model |-> f.model, messages |-> f.input_messages,
     max_tokens |-> f.max_tokens, temperature |-> f.temperature,
     stream |-> FALSE]

\* a reply that takes the place of the failed reply before it
AppendReplyOverLast(msgs, reply) ==
    IF msgs # <<>> /\ msgs[Len(msgs)].role = "assistant"
    THEN [msgs EXCEPT ![Len(msgs)] = [role |-> "assistant", content |-> reply]]
    ELSE Append(msgs, [role |-> "assistant", content |-> reply])

\* line 33
AppendReply(msgs, reply) == Append(msgs, Message("assistant", reply))

\* a rerun after any reply while budget is left
WantsRerunAlways(parsed, reruns_if_fail) == reruns_if_fail > 0

\* line 40, reached in the SyntaxError handler only
WantsRerun(parsed, reruns_if_fail) ==
    parsed = "SyntaxError" /\ reruns_if_fail > 0

\* the budget passed on undiminished
RerunBudgetKept(reruns_if_fail) == reruns_if_fail

\* line 47
RerunBudget(reruns_if_fail) == reruns_if_fail - 1

\* lines 42-48: the arguments of the recursive call; model is not passed on
RerunFrame(f, msgs) ==
    Frame(msgs, f.engine, default_model, f.max_tokens, f.temperature,
          RerunBudget(f.reruns_if_fail))

\* One pass through the body of chat_gpt_wrapper with the service's answer:
\* outcome "raised" (exc says what), "rerun" (frame is the recursive call's)
\* or "returned" (code_output, frame.input_messages).
Outcome(outcome, e, f, code, request) ==
    [outcome |-> outcome, exc |-> e, frame |-> f, code_output |-> code,
     request |-> request]

\* lines 36-49, parsed being what ast.parse made of code
AfterParse(f, msgs, code, parsed) ==
    IF parsed = "TypeError"
    THEN Outcome("raised", "TypeError", [f EXCEPT !.input_messages = msgs],
                 None, Request(f))
    ELSE IF WantsRerun(parsed, f.reruns_if_fail)
    THEN Outcome("rerun", "none", RerunFrame(f, msgs), None, Request(f))
    ELSE Outcome("returned", "none", [f EXCEPT !.input_messages = msgs],
                 code, Request(f))

\* lines 36-37
AfterExtract(f, msgs, code) == AfterParse(f, msgs, code, AstParse(code))

\* a pass that takes the failure of the request for a reply
AttemptAnswered(f, answer) ==
    AfterExtract(f, AppendReply(f.input_messages, answer),
                 extract_all_python_code(answer))

\* lines 24-49: the request raises, or the reply is appended and checked
Attempt(f, answer) ==
    IF answer = RequestError
    THEN Outcome("raised", "APIError", f, None, Request(f))
    ELSE AfterExtract(f, AppendReply(f.input_messages, answer),
                      extract_all_python_code(answer))

\* The whole call, the service answering answers[1], answers[2], ... :
\* exc, the returned pair and the requests issued.
RECURSIVE chat_gpt_wrapper(_, _)
\* the same, a being the outcome of the first pass
AfterPass(a, answers) ==
    IF a.outcome = "rerun" /\ Tail(answers) # <<>>
    THEN [chat_gpt_wrapper(a.frame, Tail(answers))
            EXCEPT !.requests = <<a.request>> \o @]
    ELSE [exc |-> a.exc, code_output |-> a.code_output,
          input_messages |-> a.frame.input_messages,
          requests |-> <<a.request>>]

chat_gpt_wrapper(f, answers) == AfterPass(Attempt(f, Head(answers)), answers)

(***************************************************************************)
(* Files.  The file system maps the paths that exist to their bytes; every *)
(* directory a path names is taken to exist, and the bytes to be valid in  *)
(* the locale's encoding, so that decoding and encoding change nothing but *)
(* the line ends.                                                          *)
(***************************************************************************)

LF == <<"\n">>

CRLF == <<"\r", "\n">>

\* open(path, "r").read(): universal newlines turn "\r\n" and "\r" into "\n"
ReadText(bytes) ==
    StrReplace(StrReplace(bytes, CRLF, LF, -1), <<"\r">>, LF, -1)

\* open(path, "w").write(text): "\n" is written as os.linesep
WriteText(text, os_linesep) == StrReplace(text, LF, os_linesep, -1)

\* the file system after path holds bytes
WriteFile(files, path, bytes) ==
    [q \in DOMAIN files \cup {path} |-> IF q = path THEN bytes ELSE files[q]]

\* the file system after os.remove(path)
RemoveFile(files, path) == [q \in DOMAIN files \ {path} |-> files[q]]

(***************************************************************************)
(* The artifact path of a source path (lines 238 and 286).                 *)
(***************************************************************************)

test_prefix == <<"t", "e", "s", "t", "_">>

\* the text handed to replace() as the replacement, on the reversed path
mapper_new == <<"/">> \o test_prefix

\* the separator replace() looks for
mapper_old == <<"\\">>

\* file_path[::-1].replace("\\", "/test_", 1)[::-1]
ArtifactPath(path) ==
    Reverse(StrReplace(Reverse(path), mapper_old, mapper_new, 1))

(***************************************************************************)
(* generate_unit_test: the pure parts.                                     *)
(***************************************************************************)

\* lines 163-166 and 132-168: the two system messages
full_prompt == <<"full_prompt">>

doc_prompt == <<"doc_prompt">>

doc_package == <<"sphinx">>

\* the session limit of lines 186 and 211
trim_threshold == 4

\* the messages kept after the first one, line 187
trim_keep == 4

\* a window that keeps the oldest messages
KeepFirstAndOldest(msgs) == SubSeq(msgs, 1, 1 + trim_keep)

\* doc_messages[:1] + doc_messages[-4:]
KeepFirstAndLast(msgs) ==
    SubSeq(msgs, 1, 1)
      \o SubSeq(msgs, IF Len(msgs) > trim_keep THEN Len(msgs) - trim_keep + 1
                      ELSE 1, Len(msgs))

\* a trim that keeps the most recent messages only
TrimSessionLastOnly(msgs) ==
    IF Len(msgs) > trim_threshold
    THEN SubSeq(msgs, Len(msgs) - trim_keep, Len(msgs))
    ELSE msgs

\* a trim that keeps the first message and the last three
TrimSessionOddWindow(msgs) ==
    IF Len(msgs) > trim_threshold
    THEN SubSeq(msgs, 1, 1) \o SubSeq(msgs, Len(msgs) - 2, Len(msgs))
    ELSE msgs

\* lines 186-187
TrimSession(msgs) ==
    IF Len(msgs) > trim_threshold THEN KeepFirstAndLast(msgs) ELSE msgs

\* str(class_method), e.g. "<function C.f at 0x0>"
StrOfMethod(o) ==
    <<"<function", " ">> \o o.class_name \o <<".">> \o o.function_name
      \o <<" ", "at", " ", "0x0>">>

\* line 176
ClassNameOf(o) == Split(Split(StrOfMethod(o), ".")[1], " ")[2]

\* line 177
FunctionNameOf(o) == Split(Split(StrOfMethod(o), ".")[2], " ")[1]

\* lines 179-184
DocRequest(function_to_test, class_name) ==
    Message("user",
            <<"provide documentation for ">> \o function_to_test
              \o <<" in class ">> \o class_name
              \o <<" that can be used in ">> \o doc_package)

\* lines 202-209
MethodTestRequest(function_name, class_name, function_to_test, file_path) ==
    Message("user",
            <<" provide unit test for the function ", BT>> \o function_name
              \o <<" in ">> \o class_name \o <<BT, ". ">> \o start_marker
              \o <<" ">> \o function_to_test \o <<" ">> \o end_marker
              \o <<" and the path of the function is ">> \o file_path)

\* lines 220-226
FunctionTestRequest(function_name, function_to_test, file_path) ==
    Message("user",
            <<" provide unit test for the function ", BT>> \o function_name
              \o <<BT, ". ">> \o start_marker \o <<" ">> \o function_to_test
              \o <<" ">> \o end_marker
              \o <<" and the path of the function is ">> \o file_path)

\* "\n".join(parts)
RECURSIVE JoinLines(_)
JoinLines(parts) ==
    IF parts = <<>> THEN <<>>
    ELSE IF Len(parts) = 1 THEN Head(parts)
    ELSE Head(parts) \o LF \o JoinLines(Tail(parts))

indent == <<" ", " ", " ", " ">>

\* lines 191-194: the class header is dropped, any other text is indented
Redent(doc_code) ==
    IF StartsWith(doc_code, <<"c", "l", "a", "s", "s">>)
    THEN JoinLines(Tail(Split(doc_code, "\n")))
    ELSE indent \o StrReplace(doc_code, LF, LF \o indent, -1)


\* line 196
Splice(file_content, function_to_test, doc_code) ==
    StrReplace(file_content, function_to_test, doc_code, -1)

\* lines 211-212, with the session's length already tested
ClipDocCode(doc_code) ==
    SubSeq(doc_code, 1, 1)
      \o SubSeq(doc_code, IF Len(doc_code) > 4 THEN Len(doc_code) - 3 ELSE 1,
                Len(doc_code))

unit_test_root == <<"t", "e", "s", "t", "_", "c", "o", "d", "e", "/", "u", "n", "i", "t", "_", "t", "e", "s", "t", "/", "t", "e", "s", "t", "_">>

\* lines 214 and 235
CurrentTestPath(class_name, function_name) ==
    unit_test_root \o class_name \o <<"_">> \o function_name
      \o <<".", "p", "y">>

(***************************************************************************)
(* get_modified_code_files: the pure parts.                                *)
(***************************************************************************)

\* the greatest element of a set of positions; 0 for the empty set
GreatestOrZero(hits) ==
    IF hits = {} THEN 0 ELSE CHOOSE i \in hits : \A j \in hits : i >= j

\* os.sep and os.altsep: "/" on POSIX, "\\" and "/" on Windows, told apart
\* here by the line separator of the platform
PathSeparators(linesep) == IF linesep = CRLF THEN {"\\", "/"} ELSE {"/"}

\* genericpath._splitext with the places of the last separator and of the
\* last dot (0: none): the dot starts an extension when it comes after the
\* separator and something other than dots stands between them
SplitExtAt(path, sepIndex, dotIndex) ==
    IF /\ dotIndex > sepIndex
       /\ \E k \in (sepIndex + 1)..(dotIndex - 1) : path[k] # "."
    THEN <<SubSeq(path, 1, dotIndex - 1), Drop(path, dotIndex)>>
    ELSE <<path, <<>>>>

\* os.path.splitext(path)
os_path_splitext(path, linesep) ==
    SplitExtAt(path,
               GreatestOrZero({k \in 1..Len(path) :
                                  path[k] \in PathSeparators(linesep)}),
               GreatestOrZero({k \in 1..Len(path) : path[k] = "."}))

\* line 73
allowed_extensions ==
    {<<".", "p", "y">>,
     <<".", "c", "p", "p">>,
     <<".", "j", "a", "v", "a">>,
     <<".", "j", "s">>,
     <<".", "s", "c", "a", "l", "a">>,
     <<".", "s", "a", "s">>,
     <<".", "j", "s", "o", "n">>,
     <<".", "c", "s", "v">>}

\* the test of line 74
IsCodeFile(f, linesep) == os_path_splitext(f, linesep)[2] \in allowed_extensions

\* line 74: the lines of the output that pass the test, in order
RECURSIVE CodeFiles(_, _)
CodeFiles(lines, linesep) ==
    IF lines = <<>> THEN <<>>
    ELSE (IF IsCodeFile(Head(lines), linesep) THEN <<Head(lines)>> ELSE <<>>)
           \o CodeFiles(Tail(lines), linesep)

\* changes[filename] = status on a dict kept as the sequence of its items in
\* insertion order: a key already there keeps its place
DictSet(changes, filename, status) ==
    IF \E k \in 1..Len(changes) : changes[k][1] = filename
    THEN [k \in 1..Len(changes) |->
            IF changes[k][1] = filename THEN <<filename, status>>
            ELSE changes[k]]
    ELSE Append(changes, <<filename, status>>)

\* an unpacking that takes the first two fields of any longer line
UnpacksLoosely(fields) == Len(fields) >= 2

\* line 81: status, filename = fields raises ValueError unless there are two
Unpacks(fields) == Len(fields) = 2

\* lines 80-85 for one line, fields being file.split("\t"): a ValueError
\* is caught and the line skipped
AfterSplit(changes, fields) ==
    IF Unpacks(fields) THEN DictSet(changes, fields[2], fields[1])
    ELSE changes

\* lines 78-85
RECURSIVE ChangesOf(_, _)
ChangesOf(code_files, changes) ==
    IF code_files = <<>> THEN changes
    ELSE ChangesOf(Tail(code_files),
                   AfterSplit(changes, Split(Head(code_files), "\t")))

\* lines 72-87, output being the decoded text of git's answer
get_modified_code_files(output, linesep) ==
    ChangesOf(CodeFiles(Split(output, "\n"), linesep), <<>>)

(***************************************************************************)
(* State.                                                                  *)
(***************************************************************************)
VARIABLES
    requests,   \* every request sent to the model service, in order
    exc,        \* the exception that ended the run, or "none"
    call,       \* chat_gpt_wrapper: the arguments its caller passed
    frame,      \* chat_gpt_wrapper: the arguments of the innermost call
    wpc,        \* chat_gpt_wrapper: "call", "returned" or "raised"
    code_output, \* chat_gpt_wrapper: the text it returned
    fs,         \* the file system: path -> bytes, for the paths that exist
    os_linesep, \* the platform's line separator
    file_path,  \* the source file being processed
    unit_test_path, \* the artifact path computed last
    gpc,        \* generate_unit_test: where it stands
    files_done, \* generate_unit_test: the files whose turn is over
    pos,        \* generate_unit_test: catalogue index of the object handled last
    nobjects,   \* generate_unit_test: code objects handled in the run
    messages,   \* the test-generation session
    doc_messages, \* the documentation session
    class_name, function_name, function_to_test, \* locals of the loop body
    doc_code, unit_test_code, generated_unit_test, current_test_path,
    mpc,        \* __main__: where it stands
    output,     \* the text git diff --name-status answered
    modified_code_files, \* the dict of line 279, as its items in order
    idx,        \* __main__: the items of the loop of line 284 that are done
    status,     \* the status of the item handled last
    diffed,     \* the paths git diff was run for (line 298), in order
    generated,  \* the paths handed to the generation pipeline, in order
    string,     \* extract_all_python_code: the text it is called with
    extracted,  \* extract_all_python_code: the value it returned
    xpc         \* extract_all_python_code: "ready" or "done"

sharedVars == <<requests, exc>>

wrapperVars == <<call, frame, wpc, code_output>>

fileVars == <<fs, os_linesep, file_path, unit_test_path>>

pipelineVars ==
    <<gpc, files_done, pos, nobjects, messages, doc_messages, class_name,
      function_name, function_to_test, doc_code, unit_test_code,
      generated_unit_test, current_test_path>>

mainVars ==
    <<mpc, output, modified_code_files, idx, status, diffed, generated>>

extractVars == <<string, extracted, xpc>>

vars ==
    <<sharedVars, wrapperVars, fileVars, pipelineVars, mainVars, extractVars>>

\* extract_all_python_code is not called on its own
ExtractIdle ==
    /\ string = None
    /\ extracted = None
    /\ xpc = "idle"

\* the __main__ block is not running
MainIdle ==
    /\ mpc = "idle"
    /\ output = None
    /\ modified_code_files = <<>>
    /\ idx = 0
    /\ status = None
    /\ diffed = <<>>
    /\ generated = <<>>

\* no file system is involved
FilesIdle ==
    /\ fs = <<>>
    /\ os_linesep = LF
    /\ file_path = None
    /\ unit_test_path = None

\* generate_unit_test is not running
PipelineIdle ==
    /\ gpc = "idle"
    /\ files_done = {}
    /\ pos = 0
    /\ nobjects = 0
    /\ messages = <<>>
    /\ doc_messages = <<>>
    /\ class_name = None
    /\ function_name = None
    /\ function_to_test = None
    /\ doc_code = None
    /\ unit_test_code = None
    /\ generated_unit_test = None
    /\ current_test_path = None

(***************************************************************************)
(* One invocation of chat_gpt_wrapper, pass by pass.                       *)
(***************************************************************************)

\* the retry budgets the caller may pass
MaxReruns == 3

Engines == {default_engine, "GPT35"}

Models == {default_model, "gpt-35-turbo"}

system_message == Message("system", <<"full_prompt">>)

user_message == Message("user", <<"request">>)

WrapperIdle ==
    /\ call = Frame(<<>>, default_engine, default_model, default_max_tokens,
                    default_temperature, 0)
    /\ frame = call
    /\ wpc = "idle"
    /\ code_output = None

InitWrapper ==
    /\ requests = <<>>
    /\ exc = "none"
    /\ \E e \in Engines, m \in Models, r \in 0..MaxReruns :
          call = Frame(<<system_message, user_message>>, e, m,
                       default_max_tokens, default_temperature, r)
    /\ frame = call
    /\ wpc = "call"
    /\ code_output = None
    /\ FilesIdle
    /\ PipelineIdle
    /\ MainIdle
    /\ ExtractIdle

\* lines 24-49 once, the service answering answer
WrapperPass(answer) ==
    /\ wpc = "call"
    /\ \E a \in {Attempt(frame, answer)} :
           /\ requests' = Append(requests, a.request)
           /\ frame' = a.frame
           /\ exc' = a.exc
           /\ code_output' = a.code_output
           /\ wpc' = IF a.outcome = "rerun" THEN "call" ELSE a.outcome
    /\ UNCHANGED <<call, fileVars, pipelineVars, mainVars, extractVars>>

NextWrapper == \E answer \in ModelAnswers : WrapperPass(answer)

SpecWrapper == InitWrapper /\ [][NextWrapper]_vars

(***************************************************************************)
(* Properties of one invocation of chat_gpt_wrapper.                       *)
(***************************************************************************)

\* the replies the invocation has received so far, in order
WrapperReplies ==
    LET n0 == Len(call.input_messages)
    IN  [k \in 1..(Len(frame.input_messages) - n0) |->
            frame.input_messages[n0 + k].content]

IsInvalidCode(reply) == AstParse(extract_all_python_code(reply)) = "SyntaxError"

IsValidCode(reply) == AstParse(extract_all_python_code(reply)) = "ok"

\* every request so far was answered, with syntactically invalid code
AllInvalidSoFar ==
    /\ exc = "none"
    /\ \A k \in 1..Len(WrapperReplies) : IsInvalidCode(WrapperReplies[k])

\* C1: with a retry budget R and a service that answers every request with
\* syntactically invalid code, the invocation never issues more than R+1
\* requests, is over once R+1 are issued, raises nothing, and returns the
\* extraction of the (R+1)-th reply after exactly R+1 requests.
C1_InvalidRepliesUseWholeBudget ==
    AllInvalidSoFar =>
        /\ Len(requests) <= call.reruns_if_fail + 1
        /\ Len(WrapperReplies) = Len(requests)
        /\ wpc # "raised"
        /\ wpc = "call" => Len(requests) <= call.reruns_if_fail
        /\ wpc = "returned" =>
              /\ Len(requests) = call.reruns_if_fail + 1
              /\ code_output =
                    extract_all_python_code(
                        WrapperReplies[call.reruns_if_fail + 1])

\* C1 happens: a budget of at least 2 was used up on invalid replies
C1_Witness ==
    /\ AllInvalidSoFar
    /\ wpc = "returned"
    /\ call.reruns_if_fail >= 2
    /\ Len(requests) = call.reruns_if_fail + 1
    /\ WrapperReplies[1] # WrapperReplies[Len(requests)]

\* the k-th reply is the first valid one, the k-1 before it being invalid
FirstValidAt(k) ==
    /\ k \in 1..Len(WrapperReplies)
    /\ IsValidCode(WrapperReplies[k])
    /\ \A j \in 1..(k - 1) : IsInvalidCode(WrapperReplies[j])

\* C2: when the k-th reply (k <= R) is valid after k-1 invalid ones, the
\* invocation has returned the extraction of the k-th reply, and the k-th
\* request is the last one issued.
C2_ValidReplyStopsRetrying ==
    \A k \in 1..call.reruns_if_fail :
        FirstValidAt(k) =>
            /\ wpc = "returned"
            /\ exc = "none"
            /\ code_output = extract_all_python_code(WrapperReplies[k])
            /\ Len(requests) = k
            /\ Len(WrapperReplies) = k

\* C2 happens: a second reply was valid with budget left over
C2_Witness ==
    /\ FirstValidAt(2)
    /\ call.reruns_if_fail >= 3
    /\ wpc = "returned"

\* session b is session a with one assistant message appended
GrowsByOneReply(a, b) ==
    /\ Len(b) = Len(a) + 1
    /\ SubSeq(b, 1, Len(a)) = a
    /\ b[Len(b)].role = "assistant"
    /\ b[Len(b)].content \in Replies

\* C12: the first request carries the session passed in, every later request
\* carries the session of the request before it with that request's reply
\* appended and nothing else, each pass appends the reply it received, and
\* after n attempts the session returned is the session passed in followed
\* by n assistant messages, the last being the reply whose extraction is
\* returned.
C12_SessionGrowsByRepliesOnly ==
    /\ [](/\ requests # <<>> => requests[1].messages = call.input_messages
          /\ \A k \in 1..(Len(requests) - 1) :
                GrowsByOneReply(requests[k].messages,
                                requests[k + 1].messages)
          /\ wpc = "returned" =>
                /\ GrowsByOneReply(requests[Len(requests)].messages,
                                   frame.input_messages)
                /\ Len(frame.input_messages) =
                      Len(call.input_messages) + Len(requests)
                /\ SubSeq(frame.input_messages, 1,
                          Len(call.input_messages)) = call.input_messages)
    /\ [][(wpc = "call" /\ exc' = "none") =>
             \E answer \in Replies :
                /\ frame'.input_messages =
                      Append(frame.input_messages,
                             [role |-> "assistant", content |-> answer])
                /\ wpc' = "returned" =>
                      code_output' = extract_all_python_code(answer)]_vars

\* C12 happens: a call returned after three attempts with three different
\* replies, two of them failed
C12_Witness ==
    /\ wpc = "returned"
    /\ Len(requests) = 3
    /\ WrapperReplies = <<reply_invalid, reply_two_blocks, reply_valid>>

\* C19: every request of an invocation, the first and each retry, carries
\* the engine, model, max_tokens and temperature the caller passed.
C19_RequestsKeepCallerSettings ==
    \A k \in 1..Len(requests) :
        /\ requests[k].engine = call.engine
        /\ requests[k].model = call.model
        /\ requests[k].max_tokens = call.max_tokens
        /\ requests[k].temperature = call.temperature

(***************************************************************************)
(* generate_unit_test, one code object of the catalogue at a time.         *)
(***************************************************************************)

\* the code objects a run handles
MaxObjects == 3

CodeObject(kind, cn, fn, source) ==
    [kind |-> kind, class_name |-> cn, function_name |-> fn,
     source |-> source]

\* What import_all_modules can list for a file, in the order of its
\* dictionaries: a file's objects are any of these, in this order.  source
\* is what inspect.getsource gives for the object.
Catalog ==
    << CodeObject("function", <<>>, <<"h">>, <<"h", "\n">>),
       CodeObject("method", <<"C">>, <<"f">>, <<" ", "f", "\n">>),
       CodeObject("method", <<"C">>, <<"g">>, <<" ", "g", "\n">>),
       CodeObject("method", <<"D">>, <<"f">>, <<" ", "f", "\n">>) >>

SourceFiles == {<<"a", "/", "m", ".", "p", "y">>, <<"a", "\\", "m", ".", "p", "y">>}

\* what a source file may hold when the run starts
InitialContents == {<<" ", "f", "\n", " ", "g", "\n", " ", "f", "\n">>, <<" ", "f", "\r", "\n", " ", "g", "\r", "\n">>, <<"z", "\n">>}

\* what the service answers to a documentation request
DocAnswers == {reply_valid, reply_class, reply_no_fence, RequestError}

\* what the service answers to a request for a unit test
TestAnswers == {reply_valid, reply_invalid, reply_no_fence, RequestError}

system_full == Message("system", full_prompt)

system_doc == Message("system", doc_prompt)

\* lines 178 and 219: the source text the catalogue's object carries
inspect_getsource(o) == o.source

\* lines 124-168
InitPipeline ==
    /\ requests = <<>>
    /\ exc = "none"
    /\ WrapperIdle
    /\ \E c \in InitialContents : fs = [q \in SourceFiles |-> c]
    /\ os_linesep \in {LF, CRLF}
    /\ file_path = None
    /\ unit_test_path = None
    /\ gpc = "files"
    /\ files_done = {}
    /\ pos = 0
    /\ nobjects = 0
    /\ messages = <<system_full>>
    /\ doc_messages = <<system_doc>>
    /\ class_name = None
    /\ function_name = None
    /\ function_to_test = None
    /\ doc_code = None
    /\ unit_test_code = None
    /\ generated_unit_test = None
    /\ current_test_path = None
    /\ MainIdle
    /\ ExtractIdle

\* the call of lines 185 and 210: every argument but the session defaulted
DefaultCall(msgs, answer) ==
    chat_gpt_wrapper(Frame(msgs, default_engine, default_model,
                           default_max_tokens, default_temperature, 0),
                     <<answer>>)

pipeline_temperature == "0.4"

\* the call of lines 227-233, with the defaults of generate_unit_test
PassedCall(msgs, answer) ==
    chat_gpt_wrapper(Frame(msgs, default_engine, default_model,
                           default_max_tokens, pipeline_temperature, 0),
                     <<answer>>)

\* lines 169-171: the next file of object_dict; one without "objects" is
\* passed over
BeginFile(path, has_objects) ==
    /\ gpc = "files"
    /\ path \in SourceFiles \ files_done
    /\ file_path' = path
    /\ generated_unit_test' = <<>>
    /\ files_done' = files_done \cup {path}
    /\ pos' = 0
    /\ gpc' = IF has_objects THEN "objects" ELSE "files"
    /\ UNCHANGED <<extractVars, mainVars, sharedVars, wrapperVars, fs, os_linesep, unit_test_path,
                   nobjects, messages, doc_messages, class_name,
                   function_name, function_to_test, doc_code, unit_test_code,
                   current_test_path>>

\* lines 175-200: the documentation exchange of a class method, the trim of
\* the documentation session and the splice into the source file
DocumentMethod(i, answer) ==
    /\ gpc = "objects"
    /\ nobjects < MaxObjects
    /\ i \in (pos + 1)..Len(Catalog)
    /\ Catalog[i].kind = "method"
    /\ \E class_method \in {Catalog[i]} :
           /\ class_name' = ClassNameOf(class_method)
           /\ function_name' = FunctionNameOf(class_method)
           /\ function_to_test' = inspect_getsource(class_method)
    /\ \E w \in {DefaultCall(Append(doc_messages,
                                    DocRequest(function_to_test',
                                               class_name')),
                             answer)} :
           /\ requests' = requests \o w.requests
           /\ exc' = w.exc
           /\ IF w.exc # "none"
              THEN /\ doc_messages' = w.input_messages
                   /\ gpc' = "raised"
                   /\ UNCHANGED <<fs, doc_code>>
              ELSE /\ doc_messages' = TrimSession(w.input_messages)
                   /\ doc_code' = Redent(w.code_output)
                   /\ fs' = WriteFile(fs, file_path,
                            WriteText(Splice(ReadText(fs[file_path]),
                                             function_to_test', doc_code'),
                                      os_linesep))
                   /\ gpc' = "method_test"
    /\ pos' = i
    /\ nobjects' = nobjects + 1
    /\ UNCHANGED <<extractVars, mainVars, wrapperVars, os_linesep, file_path, unit_test_path,
                   files_done, messages, unit_test_code, generated_unit_test,
                   current_test_path>>

\* lines 202-216: the test exchange of the class method and its test file
TestMethod(answer) ==
    /\ gpc = "method_test"
    /\ \E w \in {DefaultCall(Append(messages,
                                    MethodTestRequest(function_name,
                                                      class_name,
                                                      function_to_test,
                                                      file_path)),
                             answer)} :
           /\ requests' = requests \o w.requests
           /\ exc' = w.exc
           /\ messages' = w.input_messages
           /\ IF w.exc # "none"
              THEN /\ gpc' = "raised"
                   /\ UNCHANGED <<fs, doc_code, unit_test_code,
                                  generated_unit_test, current_test_path>>
              ELSE /\ unit_test_code' = w.code_output
                   /\ doc_code' = IF Len(doc_messages) > trim_threshold
                                  THEN ClipDocCode(doc_code) ELSE doc_code
                   /\ generated_unit_test' =
                         generated_unit_test \o function_name
                           \o <<" in class ">> \o class_name \o <<BT, "\n">>
                           \o unit_test_code'
                   /\ current_test_path' =
                         CurrentTestPath(class_name, function_name)
                   /\ fs' = WriteFile(fs, current_test_path',
                                      WriteText(unit_test_code', os_linesep))
                   /\ gpc' = "objects"
    /\ UNCHANGED <<extractVars, mainVars, wrapperVars, os_linesep, file_path, unit_test_path,
                   files_done, pos, nobjects, doc_messages, class_name,
                   function_name, function_to_test>>

\* lines 218-237: the test exchange of a top-level function and its test
\* file, whose name reads class_name: with no class handled before, the
\* name is unbound and line 235 raises
TestFunction(i, answer) ==
    /\ gpc = "objects"
    /\ nobjects < MaxObjects
    /\ i \in (pos + 1)..Len(Catalog)
    /\ Catalog[i].kind = "function"
    /\ function_name' = Catalog[i].function_name
    /\ function_to_test' = inspect_getsource(Catalog[i])
    /\ \E w \in {PassedCall(Append(messages,
                                   FunctionTestRequest(function_name',
                                                       function_to_test',
                                                       file_path)),
                            answer)} :
           /\ requests' = requests \o w.requests
           /\ messages' = w.input_messages
           /\ IF w.exc # "none"
              THEN /\ exc' = w.exc
                   /\ gpc' = "raised"
                   /\ UNCHANGED <<fs, unit_test_code, generated_unit_test,
                                  current_test_path>>
              ELSE /\ unit_test_code' = w.code_output
                   /\ generated_unit_test' =
                         generated_unit_test \o function_name'
                           \o <<BT, "\n">> \o unit_test_code'
                   /\ IF class_name = None
                      THEN /\ exc' = "NameError"
                           /\ gpc' = "raised"
                           /\ UNCHANGED <<fs, current_test_path>>
                      ELSE /\ exc' = "none"
                           /\ current_test_path' =
                                 CurrentTestPath(class_name, function_name')
                           /\ fs' = WriteFile(fs, current_test_path',
                                              WriteText(unit_test_code',
                                                        os_linesep))
                           /\ gpc' = "objects"
    /\ pos' = i
    /\ nobjects' = nobjects + 1
    /\ UNCHANGED <<extractVars, mainVars, wrapperVars, os_linesep, file_path, unit_test_path,
                   files_done, doc_messages, class_name, doc_code>>

\* lines 238-240: the file's objects are done; its tests are written to its
\* artifact path
EndFile ==
    /\ gpc = "objects"
    /\ unit_test_path' = ArtifactPath(file_path)
    /\ fs' = WriteFile(fs, unit_test_path',
                       WriteText(generated_unit_test, os_linesep))
    /\ gpc' = "files"
    /\ UNCHANGED <<extractVars, mainVars, sharedVars, wrapperVars, os_linesep, file_path,
                   files_done, pos, nobjects, messages, doc_messages,
                   class_name, function_name, function_to_test, doc_code,
                   unit_test_code, generated_unit_test, current_test_path>>

\* object_dict is exhausted: generate_unit_test returns
Finish ==
    /\ gpc = "files"
    /\ gpc' = "done"
    /\ UNCHANGED <<extractVars, mainVars, sharedVars, wrapperVars, fileVars, files_done, pos,
                   nobjects, messages, doc_messages, class_name,
                   function_name, function_to_test, doc_code, unit_test_code,
                   generated_unit_test, current_test_path>>

NextPipeline ==
    \/ \E path \in SourceFiles, has_objects \in BOOLEAN :
          BeginFile(path, has_objects)
    \/ \E i \in 1..Len(Catalog), answer \in DocAnswers :
          DocumentMethod(i, answer)
    \/ \E answer \in TestAnswers : TestMethod(answer)
    \/ \E i \in 1..Len(Catalog), answer \in TestAnswers :
          TestFunction(i, answer)
    \/ EndFile
    \/ Finish

SpecPipeline == InitPipeline /\ [][NextPipeline]_vars

(***************************************************************************)
(* Properties of generate_unit_test.                                       *)
(***************************************************************************)

\* the exchange last started on each session is complete
ExchangesComplete == gpc \in {"files", "objects", "method_test", "done"}

\* the most messages a trimmed session holds: the first one and trim_keep
SessionCap == 1 + trim_keep

\* C3: after every completed exchange, the documentation session and the
\* test-generation session each hold at most 5 messages.
C3_SessionsBounded ==
    ExchangesComplete =>
        /\ Len(doc_messages) <= SessionCap
        /\ Len(messages) <= SessionCap

\* the requests made on the documentation session so far
DocRequestCount ==
    Cardinality({k \in 1..Len(requests) :
                    requests[k].messages[1] = system_doc})

\* C4: at every point of a run, element 0 of each session is the system
\* message the session was created with, and every request carries it first.
C4_SystemMessageStaysFirst ==
    /\ Len(doc_messages) >= 1
    /\ doc_messages[1] = system_doc
    /\ \A k \in 2..Len(doc_messages) : doc_messages[k].role # "system"
    /\ Len(messages) >= 1
    /\ messages[1] = system_full
    /\ \A k \in 2..Len(messages) : messages[k].role # "system"
    /\ \A k \in 1..Len(requests) :
          requests[k].messages[1] \in {system_doc, system_full}

\* C4 happens: a trim has evicted the oldest exchange of the documentation
\* session, and the test-generation session has grown past five messages
C4_Witness ==
    /\ gpc = "objects"
    /\ DocRequestCount = 3
    /\ Len(doc_messages) = SessionCap
    /\ doc_messages[1] = system_doc
    /\ doc_messages[2] # requests[1].messages[2]
    /\ Len(messages) > SessionCap
    /\ messages[1] = system_full

\* C8: a splice whose original text does not occur verbatim in the file
\* leaves the file's content as it was.
C8_SpliceMismatchLeavesFile ==
    [][(/\ gpc = "objects"
        /\ gpc' = "method_test"
        /\ ~Contains(fs[file_path], function_to_test'))
          => fs'[file_path] = fs[file_path]]_vars

\* the last message of a session is a reply without a fenced block
EndsWithoutFence(session) ==
    /\ Len(session) > 1
    /\ session[Len(session)].role = "assistant"
    /\ extract_all_python_code(session[Len(session)].content) = None

\* C9: after a reply without a fenced block the run goes on, no error
\* raised, the absent result is what the caller holds, and the code object's
\* generated file is written.
C9_NoFenceIsAbsentResult ==
    /\ EndsWithoutFence(doc_messages) => exc = "none"
    /\ EndsWithoutFence(messages) =>
          /\ exc = "none"
          /\ unit_test_code = None
          /\ current_test_path \in DOMAIN fs

\* k syntactically invalid replies, then a request that raises, then a reply
\* that would be valid
FailingAfter(k) ==
    [j \in 1..(k + 2) |->
        IF j <= k THEN reply_invalid
        ELSE IF j = k + 1 THEN RequestError ELSE reply_valid]

\* chat_gpt_wrapper called with budget r on a service whose (k+1)-th request
\* raises
FailedCall(r, k) ==
    chat_gpt_wrapper(Frame(<<system_message, user_message>>, default_engine,
                           default_model, default_max_tokens,
                           default_temperature, r),
                     FailingAfter(k))

\* whatever the attempt a request raises in, the error leaves
\* chat_gpt_wrapper: that request is the last, and the session holds the
\* replies of the attempts before it and nothing for the failed one
RequestErrorEndsCall ==
    \A r \in 0..MaxReruns : \A k \in 0..r :
        /\ FailedCall(r, k).exc = "APIError"
        /\ Len(FailedCall(r, k).requests) = k + 1
        /\ FailedCall(r, k).input_messages =
              <<system_message, user_message>>
                \o [j \in 1..k |-> Message("assistant", reply_invalid)]

\* the session the last request carried
LastSent == requests[Len(requests)].messages

\* no message of the session stands for a request that raised
NoReplyOfFailedRequest(session) ==
    \A k \in 1..Len(session) : session[k].content # RequestError

\* C11: a model request that raises ends chat_gpt_wrapper and
\* generate_unit_test with that error: the session it was sent on ends with
\* the user request and is given no assistant message, and from then on no
\* request is made and no file is written, removed or restored.  The part
\* that concerns chat_gpt_wrapper alone, retries included, is the same in
\* every state and is evaluated where no request has been made yet.
C11_RequestErrorEndsRun ==
    /\ [](/\ requests = <<>> => RequestErrorEndsCall
          /\ NoReplyOfFailedRequest(doc_messages)
          /\ NoReplyOfFailedRequest(messages)
          /\ exc = "APIError" =>
                /\ gpc = "raised"
                /\ LastSent[Len(LastSent)].role = "user"
                /\ LastSent \in {doc_messages, messages})
    /\ [][/\ (exc = "none" /\ exc' = "APIError") =>
               (fs' = fs /\ Len(requests') = Len(requests) + 1)
          /\ exc = "APIError" =>
               (requests' = requests /\ fs' = fs /\ exc' = exc)]_vars

\* C11 happens: the third request of a run raised after a generated test
\* file had been written
C11_Witness ==
    /\ exc = "APIError"
    /\ gpc = "raised"
    /\ Len(requests) = 3
    /\ current_test_path \in DOMAIN fs
    /\ fs[current_test_path] = <<"x">>

\* a documentation exchange has just been completed and its session trimmed
DocExchangeDone == gpc = "objects" /\ gpc' = "method_test"

\* the documentation session as it stood at the trimming step of that
\* exchange: the session sent, followed by the reply
GrownDocSession ==
    Append(requests'[Len(requests')].messages,
           doc_messages'[Len(doc_messages')])

\* C13: at the trimming step of a documentation exchange, a session of the
\* system message and 6 further messages is cut to 5 messages, element 0 and
\* the 4 appended last in their order, and a session of 5 messages or fewer
\* stays as it is.
C13_TrimKeepsFirstAndLastFour ==
    [][DocExchangeDone =>
          /\ requests'[Len(requests')].messages =
                Append(doc_messages,
                       DocRequest(function_to_test', class_name'))
          /\ doc_messages'[Len(doc_messages')].role = "assistant"
          /\ Len(GrownDocSession) \in {3, 5, 7}
          /\ Len(GrownDocSession) <= 5 => doc_messages' = GrownDocSession
          /\ Len(GrownDocSession) = 7 =>
                /\ Len(doc_messages') = 5
                /\ doc_messages' =
                      <<GrownDocSession[1]>> \o SubSeq(GrownDocSession, 4, 7)
                /\ doc_messages'[1] = system_doc]_vars

\* C13 happens: the third documentation exchange of a run has been trimmed
\* from 7 messages to 5, the first exchange being the one evicted
C13_Witness ==
    /\ gpc = "method_test"
    /\ DocRequestCount = 3
    /\ Len(LastSent) = 6
    /\ Len(doc_messages) = 5
    /\ doc_messages[2] = requests[3].messages[2]
    /\ doc_messages[4] = LastSent[6]

\* C16: when the original source text occurs in the file, the splice puts
\* the new text in place of its first occurrence and leaves the rest of the
\* file, later occurrences included, as it was.
C16_SpliceReplacesFirstOnly ==
    [][(DocExchangeDone /\ Contains(ReadText(fs[file_path]), function_to_test'))
          => ReadText(fs'[file_path]) =
                StrReplace(ReadText(fs[file_path]), function_to_test',
                           doc_code', 1)]_vars

\* the test exchange of a class method has just been completed
MethodTestDone == gpc = "method_test" /\ gpc' = "objects"

\* a top-level function has just been handled, the model having answered
\* with a fenced block
FunctionHandled ==
    /\ gpc = "objects"
    /\ pos' > pos
    /\ Catalog[pos'].kind = "function"
    /\ exc' \notin {"APIError", "TypeError"}

\* the class names of the catalogue
ClassNames ==
    {Catalog[k].class_name : k \in {j \in 1..Len(Catalog) :
                                       Catalog[j].kind = "method"}}

\* C17: the generated test file of a code object is written under the
\* fixed root at a path made of the object's own class name, when it has
\* one, and function name: for a class method from its class and name, for
\* a top-level function without error and without the name of any class,
\* whatever was handled before it.
C17_TestPathFromOwnIdentity ==
    [][/\ MethodTestDone =>
            /\ current_test_path' =
                  unit_test_root \o Catalog[pos].class_name \o <<"_">>
                    \o Catalog[pos].function_name \o <<".", "p", "y">>
            /\ current_test_path' \in DOMAIN fs'
       /\ FunctionHandled =>
            /\ exc' = "none"
            /\ current_test_path' \in DOMAIN fs'
            /\ StartsWith(current_test_path', unit_test_root)
            /\ Contains(current_test_path', Catalog[pos'].function_name)
            /\ \A cn \in ClassNames :
                  ~Contains(current_test_path', cn \o <<"_">>)]_vars

\* generate_unit_test has just written the tests of a file to its artifact
\* path
AggregateWritten == gpc = "objects" /\ gpc' = "files"

\* the dispatcher has just handled an item
ItemDispatched == mpc = "dispatch" /\ idx' = idx + 1

\* C18: the artifact path of a source path differs from it, so the write of
\* a file's aggregated tests leaves the source file as the splices left it,
\* and the dispatcher removes no file at the source path.
C18_ArtifactPathIsNotSource ==
    [][/\ AggregateWritten =>
            /\ unit_test_path' # file_path
            /\ fs'[file_path] = fs[file_path]
       /\ ItemDispatched =>
            /\ unit_test_path' # file_path'
            /\ file_path' \in DOMAIN fs => file_path' \in DOMAIN fs']_vars

\* the system message, then user and assistant messages in turn, a user
\* message first
Alternates(session) ==
    /\ session # <<>>
    /\ session[1].role = "system"
    /\ \A k \in 2..Len(session) :
          session[k].role = IF k % 2 = 0 THEN "user" ELSE "assistant"

\* the requests made on the documentation session, as places in requests
DocRequests == {k \in 1..Len(requests) : requests[k].messages[1] = system_doc}

\* C20: the documentation session is, whenever it is sent and after every
\* trim, the system message followed by user and assistant messages in
\* turn, and each assistant message it holds stands directly after the
\* user request that was sent last in the request it answers.
C20_DocSessionAlternates ==
    /\ Alternates(doc_messages)
    /\ \A k \in DocRequests :
          /\ Alternates(requests[k].messages)
          /\ requests[k].messages[Len(requests[k].messages)].role = "user"
    /\ \A k \in 2..Len(doc_messages) :
          doc_messages[k].role = "assistant" =>
              \E j \in DocRequests :
                  requests[j].messages[Len(requests[j].messages)] =
                      doc_messages[k - 1]

\* C20 happens: the session of the third documentation request, sent after
\* a trim, was trimmed again, which evicted the first exchange whole
C20_Witness ==
    /\ Cardinality(DocRequests) = 3
    /\ Len(requests) = 6
    /\ gpc = "objects"
    /\ Len(doc_messages) = 5
    /\ doc_messages[2].role = "user"
    /\ doc_messages[2] # requests[1].messages[2]
    /\ doc_messages[5].role = "assistant"

(***************************************************************************)
(* The __main__ block: the diff is read, then each change is dispatched.   *)
(***************************************************************************)

\* the lines git diff --name-status answers at most
MaxDiffLines == 2

\* the lines git may answer: changes, a deletion of the same file, a
\* rename (three fields), a line without a tab, an extension that is not
\* allowed, and a dot file
DiffLines ==
    {<<"M", "\t", "a", ".", "p", "y">>,
     <<"D", "\t", "a", ".", "p", "y">>,
     <<"A", "\t", "b", ".", "j", "s">>,
     <<"D", "\t", "a", "/", "b", "/", "m", "o", "d", "u", "l", "e", ".", "p", "y">>,
     <<"D", "\t", "a", "\\", "m", ".", "p", "y">>,
     <<"R", "1", "0", "0", "\t", "a", ".", "p", "y", "\t", "b", ".", "p", "y">>,
     <<"a", ".", "p", "y">>,
     <<"M", "\t", "a", ".", "t", "x", "t">>,
     <<"D", "\t", "a", "/", ".", "p", "y">>}

\* the files that may exist when the run starts
FileCandidates ==
    {<<"a", "/", "b", "/", "m", "o", "d", "u", "l", "e", ".", "p", "y">>,
     <<"a", "/", "b", "/", "t", "e", "s", "t", "_", "m", "o", "d", "u", "l", "e", ".", "p", "y">>,
     <<"a", "_", "t", "s", "e", "t", "/", "m", ".", "p", "y">>,
     <<"t", "e", "s", "t", "_", "a", ".", "p", "y">>}

\* all sequences over S of length at most n
SeqsUpTo(S, n) == UNION {[1..k -> S] : k \in 0..n}

\* git's answer: every line ends with "\n"
RECURSIVE OutputOf(_)
OutputOf(lines) ==
    IF lines = <<>> THEN <<>> ELSE Head(lines) \o LF \o OutputOf(Tail(lines))

deleted_status == <<"D">>

InitMain ==
    /\ requests = <<>>
    /\ exc = "none"
    /\ WrapperIdle
    /\ PipelineIdle
    /\ \E present \in SUBSET FileCandidates : fs = [q \in present |-> <<"t">>]
    /\ os_linesep \in {LF, CRLF}
    /\ file_path = None
    /\ unit_test_path = None
    /\ mpc = "start"
    /\ output = None
    /\ modified_code_files = <<>>
    /\ idx = 0
    /\ status = None
    /\ diffed = <<>>
    /\ generated = <<>>
    /\ ExtractIdle

\* lines 279-283: git answers lines; the dict is built and, when it is not
\* empty, the loop over its items starts
GetModifiedCodeFiles(lines) ==
    /\ mpc = "start"
    /\ output' = OutputOf(lines)
    /\ modified_code_files' = get_modified_code_files(output', os_linesep)
    /\ mpc' = IF Len(modified_code_files') # 0 THEN "dispatch" ELSE "done"
    /\ UNCHANGED <<extractVars, sharedVars, wrapperVars, fileVars, pipelineVars, idx,
                   status, diffed, generated>>

\* line 70 or line 298: the git command fails and check_output raises
GitFails ==
    /\ mpc \in {"start", "dispatch"}
    /\ mpc = "dispatch" => modified_code_files[idx + 1][2] # deleted_status
    /\ exc' = "CalledProcessError"
    /\ mpc' = "raised"
    /\ UNCHANGED <<extractVars, requests, wrapperVars, fileVars, pipelineVars, output,
                   modified_code_files, idx, status, diffed, generated>>

\* where the loop of line 284 stands after one more item
AfterItem == IF idx + 1 = Len(modified_code_files) THEN "done" ELSE "dispatch"

\* lines 284-290: an item with status "D"
DispatchDeleted ==
    /\ mpc = "dispatch"
    /\ modified_code_files[idx + 1][2] = deleted_status
    /\ file_path' = modified_code_files[idx + 1][1]
    /\ status' = modified_code_files[idx + 1][2]
    /\ unit_test_path' = ArtifactPath(file_path')
    /\ fs' = IF unit_test_path' \in DOMAIN fs
             THEN RemoveFile(fs, unit_test_path') ELSE fs
    /\ idx' = idx + 1
    /\ mpc' = AfterItem
    /\ UNCHANGED <<extractVars, sharedVars, wrapperVars, os_linesep, pipelineVars, output,
                   modified_code_files, diffed, generated>>

\* lines 284-286 and 291-307: an item with any other status.  The file's
\* diff is fetched and its "+ def" and "- def" lines are printed; nothing
\* is generated.
DispatchChanged ==
    /\ mpc = "dispatch"
    /\ modified_code_files[idx + 1][2] # deleted_status
    /\ file_path' = modified_code_files[idx + 1][1]
    /\ status' = modified_code_files[idx + 1][2]
    /\ unit_test_path' = ArtifactPath(file_path')
    /\ diffed' = Append(diffed, file_path')
    /\ idx' = idx + 1
    /\ mpc' = AfterItem
    /\ UNCHANGED <<extractVars, sharedVars, wrapperVars, fs, os_linesep, pipelineVars,
                   output, modified_code_files, generated>>

NextMain ==
    \/ \E lines \in SeqsUpTo(DiffLines, MaxDiffLines) :
          GetModifiedCodeFiles(lines)
    \/ GitFails
    \/ DispatchDeleted
    \/ DispatchChanged

SpecMain == InitMain /\ [][NextMain]_vars

(***************************************************************************)
(* Properties of the __main__ block.                                       *)
(***************************************************************************)

\* the place of the last path separator of either kind; 0 when there is none
LastSeparator(path) ==
    GreatestOrZero({k \in 1..Len(path) : path[k] \in {"/", "\\"}})

\* path with the prefix put immediately before its final segment
PrefixFinalSegment(path) ==
    SubSeq(path, 1, LastSeparator(path)) \o test_prefix
      \o Drop(path, LastSeparator(path) + 1)

\* C5: the artifact path computed for a source path of several segments is
\* that path with "test_" inserted immediately before the final segment.
C5_ArtifactPathInsertsPrefix ==
    (/\ mpc \in {"dispatch", "done"}
     /\ idx > 0
     /\ LastSeparator(file_path) > 0)
        => unit_test_path = PrefixFinalSegment(file_path)

\* this step handles an item of the given kind
HandlesItem(deleted) ==
    /\ mpc = "dispatch"
    /\ idx' = idx + 1
    /\ (status' = deleted_status) = deleted

\* C6: handling a Deleted item whose artifact exists removes that artifact,
\* issues no model request, and removes or writes no other file.  The
\* artifact is the one C5 names, for a path of several segments.
C6_DeletedRemovesArtifactOnly ==
    [][(/\ HandlesItem(TRUE)
        /\ LastSeparator(file_path') > 0
        /\ PrefixFinalSegment(file_path') \in DOMAIN fs)
          => /\ PrefixFinalSegment(file_path') \notin DOMAIN fs'
             /\ requests' = requests
             /\ generated' = generated
             /\ \A q \in (DOMAIN fs \cup DOMAIN fs')
                            \ {PrefixFinalSegment(file_path')} :
                   /\ q \in DOMAIN fs
                   /\ q \in DOMAIN fs'
                   /\ fs'[q] = fs[q]]_vars

\* C7: handling an Added or Modified item runs the generation pipeline once,
\* for that file, and leaves the file's artifact written.
C7_ChangedRegenerates ==
    [][(/\ HandlesItem(FALSE)
        /\ status' \in {<<"A">>, <<"M">>})
          => /\ generated' = Append(generated, file_path')
             /\ {PrefixFinalSegment(file_path'), unit_test_path'}
                   \cap DOMAIN fs' # {}]_vars

\* the lines of git's answer
OutputLines == Split(output, "\n")

\* the final path segment of a line, on this platform
Basename(line) ==
    Drop(line, 1 + GreatestOrZero({k \in 1..Len(line) :
                                      line[k] \in PathSeparators(os_linesep)}))

EndsWith(s, suffix) ==
    Len(s) >= Len(suffix) /\ Drop(s, Len(s) - Len(suffix) + 1) = suffix

\* the line's final segment is a name, not all dots, followed by one of the
\* allowed extensions
HasAllowedExtension(line) ==
    \E e \in allowed_extensions :
        /\ EndsWith(Basename(line), e)
        /\ \E k \in 1..(Len(Basename(line)) - Len(e)) : Basename(line)[k] # "."

\* the places of the tabs of a line
Tabs(line) == {k \in 1..Len(line) : line[k] = "\t"}

\* exactly one tab-separated status/filename pair
WellFormed(line) == Cardinality(Tabs(line)) = 1

StatusField(line) == SubSeq(line, 1, LeastOrZero(Tabs(line)) - 1)

FilenameField(line) == Drop(line, LeastOrZero(Tabs(line)) + 1)

\* the lines that count: allowed extension and well formed
GoodLines ==
    {k \in 1..Len(OutputLines) :
        HasAllowedExtension(OutputLines[k]) /\ WellFormed(OutputLines[k])}

\* filename -> status of the last good line for each filename
ExpectedChanges ==
    {<<FilenameField(OutputLines[k]), StatusField(OutputLines[k])>> :
        k \in {g \in GoodLines :
                  \A h \in GoodLines :
                      h > g => FilenameField(OutputLines[h])
                                  # FilenameField(OutputLines[g])}}

\* C10: whatever lines git answers, the map returned holds exactly one item
\* filename -> status for each well-formed line with an allowed extension,
\* the last such line of a filename deciding its status; malformed lines add
\* nothing and do not stop the lines after them from being read.
C10_MalformedLinesSkipped ==
    output # None =>
        /\ {modified_code_files[k] : k \in 1..Len(modified_code_files)}
              = ExpectedChanges
        /\ Len(modified_code_files) = Cardinality(ExpectedChanges)
        /\ mpc = "raised" => exc = "CalledProcessError"

\* C10 happens: a malformed line with an allowed extension came first and
\* the well-formed line after it made the only item
C10_Witness ==
    /\ output # None
    /\ Len(OutputLines) = 3
    /\ HasAllowedExtension(OutputLines[1])
    /\ ~WellFormed(OutputLines[1])
    /\ 2 \in GoodLines
    /\ modified_code_files =
          <<<<FilenameField(OutputLines[2]), StatusField(OutputLines[2])>>>>

(***************************************************************************)
(* extract_all_python_code on its own: a response text is made of at most  *)
(* MaxPieces pieces, and the function is called with it.                   *)
(***************************************************************************)

\* the pieces a response text is made of at most
MaxPieces == 6

\* what a response text is made of: the two fences, a lone grave accent,
\* code, code within blanks, and a blank
Pieces ==
    {start_marker, end_marker, <<BT>>, <<"x">>, <<" ", "y", "\n">>, <<" ">>}

ResponseTexts == {Join(pieces) : pieces \in SeqsUpTo(Pieces, MaxPieces)}

InitExtract ==
    /\ requests = <<>>
    /\ exc = "none"
    /\ WrapperIdle
    /\ FilesIdle
    /\ PipelineIdle
    /\ MainIdle
    /\ string \in ResponseTexts
    /\ extracted = None
    /\ xpc = "ready"

\* lines 52-59
ExtractAllPythonCode ==
    /\ xpc = "ready"
    /\ extracted' = extract_all_python_code(string)
    /\ xpc' = "done"
    /\ UNCHANGED <<string, sharedVars, wrapperVars, fileVars, pipelineVars,
                   mainVars>>

NextExtract == ExtractAllPythonCode

SpecExtract == InitExtract /\ [][NextExtract]_vars

(***************************************************************************)
(* Properties of extract_all_python_code.                                  *)
(***************************************************************************)

\* the text holds an opening fence and, after it, a closing fence
HasFencedBlock(text) ==
    \E i, j \in 1..Len(text) :
        /\ OccursAt(text, start_marker, i)
        /\ OccursAt(text, end_marker, j)
        /\ j >= i + Len(start_marker)

\* The fenced blocks of a text, in order of appearance: a block is what
\* stands between an opening fence and the first closing fence after it, and
\* the next block is looked for after that closing fence.
RECURSIVE BlocksFrom(_, _)
BlocksFrom(text, from) ==
    LET opens == {i \in from..Len(text) : OccursAt(text, start_marker, i)}
    IN  IF opens = {} THEN <<>>
        ELSE LET i == CHOOSE i \in opens : \A k \in opens : i <= k
                 closes == {j \in (i + Len(start_marker))..Len(text) :
                               OccursAt(text, end_marker, j)}
             IN  IF closes = {} THEN <<>>
                 ELSE LET j == CHOOSE j \in closes : \A k \in closes : j <= k
                      IN  <<SubSeq(text, i + Len(start_marker), j - 1)>>
                            \o BlocksFrom(text, j + Len(end_marker))

Blocks(text) == BlocksFrom(text, 1)

\* a block without the white space around it
Trimmed(block) ==
    LET inked == {k \in 1..Len(block) : block[k] \notin Whitespace}
    IN  IF inked = {} THEN <<>>
        ELSE SubSeq(block,
                    CHOOSE a \in inked : \A k \in inked : a <= k,
                    CHOOSE b \in inked : \A k \in inked : b >= k)

\* trim(B1) ... trim(BN), nothing between them
RECURSIVE TrimmedConcat(_)
TrimmedConcat(blocks) ==
    IF blocks = <<>> THEN <<>>
    ELSE Trimmed(Head(blocks)) \o TrimmedConcat(Tail(blocks))

\* C14: for a text without a fenced block the function returns None, never
\* the empty text; it returns the empty text only for a text with at least
\* one fenced block whose blocks are all empty once trimmed.
C14_NoBlockGivesNone ==
    xpc = "done" =>
        /\ ~HasFencedBlock(string) => extracted = None
        /\ HasFencedBlock(string) => extracted # None
        /\ extracted = <<>> =>
              /\ HasFencedBlock(string)
              /\ \A k \in 1..Len(Blocks(string)) :
                    Trimmed(Blocks(string)[k]) = <<>>

\* C14 happens: a text holding both fences, the closing one first, has no
\* fenced block and gives None
C14_Witness ==
    /\ xpc = "done"
    /\ Contains(string, start_marker)
    /\ Contains(string, <<"x">> \o end_marker)
    /\ ~HasFencedBlock(string)
    /\ extracted = None

\* C15: for a text with N >= 1 fenced blocks the function returns
\* trim(B1) ... trim(BN) in the order of the blocks, with nothing between
\* them and nothing of the text outside the fences.
C15_BlocksTrimmedAndJoined ==
    (xpc = "done" /\ Blocks(string) # <<>>) =>
        extracted = TrimmedConcat(Blocks(string))

\* C15 happens: two different blocks, the first of them within white space
C15_Witness ==
    /\ xpc = "done"
    /\ Len(Blocks(string)) = 2
    /\ Blocks(string)[1] = <<" ", "y", "\n">>
    /\ Blocks(string)[2] = <<"x">>
    /\ extracted = <<"y", "x">>

=============================================================================
